---- MODULE Spec2Model ----
(***************************************************************************)
(* Model of bintrees/abctree.py: the shared algorithmic layer (_ABCTree    *)
(* and ABCTree) of the pure Python binary trees.                           *)
(*                                                                         *)
(* A node is a record [key, value, left, right]; an absent child and an    *)
(* empty root are None.  A tree object is a record [root, count].          *)
(* Every method is an operator that returns a record [tree, ret, err]:     *)
(* the tree after the call, the returned value and the exception raised    *)
(* (NoError when the call returns normally).                               *)
(***************************************************************************)
EXTENDS Integers, Sequences, FiniteSets, TLC

VARIABLES tree, other, last

vars == <<tree, other, last>>

(* ------------------------------ bounds -------------------------------- *)

\* the keys of the single-tree specification are 1..NumKeys
NumKeys == 4

\* keys of the set-algebra specification are 1..SetNumKeys
SetNumKeys == 2

Keys == 1..NumKeys

SetKeys == 1..SetNumKeys

\* arguments of the queries also fall below and above every stored key
Probes == 0..(NumKeys + 1)

Values == {"x", "y"}

(* --------------------------- Python values ---------------------------- *)

None == <<>>

NoError == "NoError"

\* KeyNotFound of the specification
KeyError == "KeyError"

\* EmptyTree of the specification
ValueError == "ValueError"

AttributeError == "AttributeError"

\* InvalidArgument of the specification, and what a malformed source raises
TypeError == "TypeError"

Result(t, ret, err) == [tree |-> t, ret |-> ret, err |-> err]

(* ----------------------- the concrete node store ---------------------- *)

Node(key, value) == [key |-> key, value |-> value, left |-> None, right |-> None]

\* self.__class__(): a tree with no nodes
NewTree == [root |-> None, count |-> 0]

is_empty(t) == t.count = 0

RECURSIVE NodeInsert(_, _, _)
NodeInsert(node, key, value) ==
    IF node = None THEN Node(key, value)
    ELSE IF key = node.key THEN [node EXCEPT !.value = value]
    ELSE IF key < node.key
         THEN [node EXCEPT !.left = NodeInsert(node.left, key, value)]
         ELSE [node EXCEPT !.right = NodeInsert(node.right, key, value)]

RECURSIVE NodeHas(_, _)
NodeHas(node, key) ==
    IF node = None THEN FALSE
    ELSE IF key = node.key THEN TRUE
    ELSE IF key < node.key THEN NodeHas(node.left, key)
    ELSE NodeHas(node.right, key)

\* insert(key, value): a new leaf, or the value of an existing node replaced
insert(t, key, value) ==
    [root  |-> NodeInsert(t.root, key, value),
     count |-> IF NodeHas(t.root, key) THEN t.count ELSE t.count + 1]

RECURSIVE NodeMin(_)
NodeMin(node) == IF node.left = None THEN node ELSE NodeMin(node.left)

RECURSIVE NodeRemove(_, _)
NodeRemove(node, key) ==
    IF key < node.key THEN [node EXCEPT !.left = NodeRemove(node.left, key)]
    ELSE IF key > node.key THEN [node EXCEPT !.right = NodeRemove(node.right, key)]
    ELSE IF node.left # None /\ node.right # None
         THEN LET replacement == NodeMin(node.right)
              IN  [key   |-> replacement.key,
                   value |-> replacement.value,
                   left  |-> node.left,
                   right |-> NodeRemove(node.right, replacement.key)]
         ELSE IF node.left = None THEN node.right ELSE node.left

\* remove(key): KeyError when the key is absent, the tree untouched
remove(t, key) ==
    IF ~NodeHas(t.root, key) THEN Result(t, None, KeyError)
    ELSE Result([root |-> NodeRemove(t.root, key), count |-> t.count - 1],
                None, NoError)

(* ----------------------- reference definitions ------------------------ *)

\* the nodes reachable from a node, as a set of <<key, value>> items
RECURSIVE NodeItems(_)
NodeItems(node) ==
    IF node = None THEN {}
    ELSE {<<node.key, node.value>>} \cup NodeItems(node.left) \cup NodeItems(node.right)

ItemsOf(t) == NodeItems(t.root)

KeysOf(t) == {it[1] : it \in ItemsOf(t)}

ValueAt(t, k) == (CHOOSE it \in ItemsOf(t) : it[1] = k)[2]

\* the BST ordering invariant of a subtree
RECURSIVE IsBST(_)
IsBST(node) ==
    IF node = None THEN TRUE
    ELSE /\ \A it \in NodeItems(node.left) : it[1] < node.key
         /\ \A it \in NodeItems(node.right) : it[1] > node.key
         /\ IsBST(node.left)
         /\ IsBST(node.right)

\* the items of a set, in ascending key order
RECURSIVE SortedItems(_)
SortedItems(S) ==
    IF S = {} THEN <<>>
    ELSE LET m == CHOOSE it \in S : \A o \in S : it[1] <= o[1]
         IN  <<m>> \o SortedItems(S \ {m})

Reverse(s) == [i \in 1..Len(s) |-> s[Len(s) + 1 - i]]

RECURSIVE NodeHeight(_)
NodeHeight(node) ==
    IF node = None THEN 0
    ELSE 1 + (IF NodeHeight(node.left) >= NodeHeight(node.right)
              THEN NodeHeight(node.left) ELSE NodeHeight(node.right))

(* ------------------------------ Navigator ----------------------------- *)

RECURSIVE GetValueLoop(_, _)
GetValueLoop(node, key) ==
    IF node = None THEN Result(None, None, KeyError)
    ELSE IF key = node.key THEN Result(None, node.value, NoError)
    ELSE IF key < node.key THEN GetValueLoop(node.left, key)
    ELSE GetValueLoop(node.right, key)

get_value(t, key) == [GetValueLoop(t.root, key) EXCEPT !.tree = t]

get(t, key, default) ==
    LET r == get_value(t, key)
    IN  IF r.err = KeyError THEN Result(t, default, NoError) ELSE r

RECURSIVE Leftmost(_)
Leftmost(node) == IF node.left # None THEN Leftmost(node.left) ELSE node

RECURSIVE Rightmost(_)
Rightmost(node) == IF node.right # None THEN Rightmost(node.right) ELSE node

\* min_item that reports an empty tree the way a lookup reports a missing key
min_item_keyerror(t) ==
    IF t.count = 0 THEN Result(t, None, KeyError)
    ELSE LET node == Leftmost(t.root)
         IN  Result(t, <<node.key, node.value>>, NoError)

min_item(t) ==
    IF t.count = 0 THEN Result(t, None, ValueError)
    ELSE LET node == Leftmost(t.root)
         IN  Result(t, <<node.key, node.value>>, NoError)

max_item(t) ==
    IF t.count = 0 THEN Result(t, None, ValueError)
    ELSE LET node == Rightmost(t.root)
         IN  Result(t, <<node.key, node.value>>, NoError)

min_key(t) ==
    LET r == min_item(t)
    IN  IF r.err # NoError THEN r ELSE [r EXCEPT !.ret = r.ret[1]]

max_key(t) ==
    LET r == max_item(t)
    IN  IF r.err # NoError THEN r ELSE [r EXCEPT !.ret = r.ret[1]]

\* the child selectors and the comparison handed to _next_item and to
\* _iter_items: fwd stands for (left, right, lt), ~fwd for (right, left, gt)
left(node, fwd) == IF fwd THEN node.left ELSE node.right

right(node, fwd) == IF fwd THEN node.right ELSE node.left

less_than(a, b, fwd) == IF fwd THEN a < b ELSE a > b

\* the first loop of _next_item: the node of key (None at a dead end) and
\* the candidate met on the way down
RECURSIVE NextItemDescend(_, _, _, _)
NextItemDescend(node, succ, key, fwd) ==
    IF node = None THEN [node |-> None, succ |-> succ]
    ELSE IF key = node.key THEN [node |-> node, succ |-> succ]
    ELSE IF less_than(key, node.key, fwd)
         THEN NextItemDescend(left(node, fwd),
                              IF succ = None \/ less_than(node.key, succ.key, fwd)
                              THEN node ELSE succ,
                              key, fwd)
         ELSE NextItemDescend(right(node, fwd), succ, key, fwd)

RECURSIVE NextItemSmallest(_, _)
NextItemSmallest(node, fwd) ==
    IF left(node, fwd) # None THEN NextItemSmallest(left(node, fwd), fwd) ELSE node

\* _next_item that returns the candidate met on the way down whenever there
\* is one, without looking into the subtree behind the node of key
next_item_ancestor(t, key, fwd) ==
    LET d == NextItemDescend(t.root, None, key, fwd)
    IN  IF d.node = None THEN Result(t, None, KeyError)
        ELSE IF d.succ # None THEN Result(t, <<d.succ.key, d.succ.value>>, NoError)
        ELSE IF right(d.node, fwd) # None
             THEN LET node == NextItemSmallest(right(d.node, fwd), fwd)
                  IN  Result(t, <<node.key, node.value>>, NoError)
             ELSE Result(t, None, KeyError)

next_item(t, key, fwd) ==
    LET d == NextItemDescend(t.root, None, key, fwd)
    IN  IF d.node = None THEN Result(t, None, KeyError)
        ELSE IF right(d.node, fwd) # None
             THEN LET node == NextItemSmallest(right(d.node, fwd), fwd)
                      succ == IF d.succ = None THEN node
                              ELSE IF less_than(node.key, d.succ.key, fwd) THEN node
                              ELSE d.succ
                  IN  Result(t, <<succ.key, succ.value>>, NoError)
             ELSE IF d.succ = None THEN Result(t, None, KeyError)
             ELSE Result(t, <<d.succ.key, d.succ.value>>, NoError)

succ_item(t, key) ==
    IF t.count = 0 THEN Result(t, None, KeyError) ELSE next_item(t, key, TRUE)

prev_item(t, key) ==
    IF t.count = 0 THEN Result(t, None, KeyError) ELSE next_item(t, key, FALSE)

\* the loop of floor_item keeping the first candidate instead of the last
RECURSIVE FloorLoop_first(_, _, _)
FloorLoop_first(node, prev, key) ==
    IF node = None
    THEN IF prev # None THEN Result(None, <<prev.key, prev.value>>, NoError)
         ELSE Result(None, None, KeyError)
    ELSE IF key = node.key THEN Result(None, <<node.key, node.value>>, NoError)
    ELSE IF key < node.key THEN FloorLoop_first(node.left, prev, key)
    ELSE FloorLoop_first(node.right, IF prev = None THEN node ELSE prev, key)

RECURSIVE FloorLoop(_, _, _)
FloorLoop(node, prev, key) ==
    IF node = None
    THEN IF prev # None THEN Result(None, <<prev.key, prev.value>>, NoError)
         ELSE Result(None, None, KeyError)
    ELSE IF key = node.key THEN Result(None, <<node.key, node.value>>, NoError)
    ELSE IF key < node.key THEN FloorLoop(node.left, prev, key)
    ELSE FloorLoop(node.right,
                   IF prev = None \/ node.key > prev.key THEN node ELSE prev,
                   key)

floor_item(t, key) == [FloorLoop(t.root, None, key) EXCEPT !.tree = t]

RECURSIVE CeilingLoop(_, _, _)
CeilingLoop(node, succ, key) ==
    IF node = None
    THEN IF succ # None THEN Result(None, <<succ.key, succ.value>>, NoError)
         ELSE Result(None, None, KeyError)
    ELSE IF key = node.key THEN Result(None, <<node.key, node.value>>, NoError)
    ELSE IF key > node.key THEN CeilingLoop(node.right, succ, key)
    ELSE CeilingLoop(node.left,
                     IF succ = None \/ node.key < succ.key THEN node ELSE succ,
                     key)

ceiling_item(t, key) == [CeilingLoop(t.root, None, key) EXCEPT !.tree = t]

(* ---------------------------- Range Iterator -------------------------- *)

\* an optional key argument is None or Some(key)
Some(key) == <<key>>

\* in_range with the end of the range included
in_range_closed(t, x, start_key, end_key) ==
    IF start_key = None /\ end_key = None THEN TRUE
    ELSE LET start == IF start_key = None THEN min_key(t).ret ELSE start_key[1]
         IN  IF end_key = None THEN x >= start
             ELSE start <= x /\ x <= end_key[1]

\* the range predicate chosen by _iter_items
in_range(t, x, start_key, end_key) ==
    IF start_key = None /\ end_key = None THEN TRUE
    ELSE LET start == IF start_key = None THEN min_key(t).ret ELSE start_key[1]
         IN  IF end_key = None THEN x >= start
             ELSE start <= x /\ x < end_key[1]

\* the state of the generator when its loop is entered
IterStart(t) ==
    [node |-> t.root, stack |-> <<>>, go_left |-> TRUE, out |-> <<>>, done |-> FALSE]

\* IterStep with the stack read as a queue: the oldest ancestor is resumed
IterStep_fifo(t, st, fwd, start_key, end_key) ==
    IF left(st.node, fwd) # None /\ st.go_left
    THEN [st EXCEPT !.stack = Append(st.stack, st.node),
                    !.node = left(st.node, fwd)]
    ELSE LET out == IF in_range(t, st.node.key, start_key, end_key)
                    THEN Append(st.out, <<st.node.key, st.node.value>>)
                    ELSE st.out
         IN  IF right(st.node, fwd) # None
             THEN [st EXCEPT !.out = out, !.node = right(st.node, fwd), !.go_left = TRUE]
             ELSE IF Len(st.stack) = 0
                  THEN [st EXCEPT !.out = out, !.done = TRUE]
                  ELSE [st EXCEPT !.out = out,
                                  !.node = st.stack[1],
                                  !.stack = Tail(st.stack),
                                  !.go_left = FALSE]

\* IterStep descending to the left without stacking the node it leaves
IterStep_nopush(t, st, fwd, start_key, end_key) ==
    IF left(st.node, fwd) # None /\ st.go_left
    THEN [st EXCEPT !.node = left(st.node, fwd)]
    ELSE LET out == IF in_range(t, st.node.key, start_key, end_key)
                    THEN Append(st.out, <<st.node.key, st.node.value>>)
                    ELSE st.out
         IN  IF right(st.node, fwd) # None
             THEN [st EXCEPT !.out = out, !.node = right(st.node, fwd), !.go_left = TRUE]
             ELSE IF Len(st.stack) = 0
                  THEN [st EXCEPT !.out = out, !.done = TRUE]
                  ELSE [st EXCEPT !.out = out,
                                  !.node = st.stack[Len(st.stack)],
                                  !.stack = SubSeq(st.stack, 1, Len(st.stack) - 1),
                                  !.go_left = FALSE]

\* one pass through the body of the while loop of _iter_items
IterStep(t, st, fwd, start_key, end_key) ==
    IF left(st.node, fwd) # None /\ st.go_left
    THEN [st EXCEPT !.stack = Append(st.stack, st.node),
                    !.node = left(st.node, fwd)]
    ELSE LET out == IF in_range(t, st.node.key, start_key, end_key)
                    THEN Append(st.out, <<st.node.key, st.node.value>>)
                    ELSE st.out
         IN  IF right(st.node, fwd) # None
             THEN [st EXCEPT !.out = out, !.node = right(st.node, fwd), !.go_left = TRUE]
             ELSE IF Len(st.stack) = 0
                  THEN [st EXCEPT !.out = out, !.done = TRUE]
                  ELSE [st EXCEPT !.out = out,
                                  !.node = st.stack[Len(st.stack)],
                                  !.stack = SubSeq(st.stack, 1, Len(st.stack) - 1),
                                  !.go_left = FALSE]

RECURSIVE IterLoop(_, _, _, _, _)
IterLoop(t, st, fwd, start_key, end_key) ==
    IF st.done THEN st.out
    ELSE IterLoop(t, IterStep(t, st, fwd, start_key, end_key), fwd, start_key, end_key)

\* _iter_items(left, right, start_key, end_key): everything the generator yields
iter_items_run(t, fwd, start_key, end_key) ==
    IF is_empty(t) THEN <<>>
    ELSE IterLoop(t, IterStart(t), fwd, start_key, end_key)

iter_items_forward(t, start_key, end_key) == iter_items_run(t, TRUE, start_key, end_key)

iter_items_backward(t, start_key, end_key) == iter_items_run(t, FALSE, start_key, end_key)

iter_items(t, start_key, end_key, reverse) ==
    IF is_empty(t) THEN <<>>
    ELSE IF reverse THEN iter_items_backward(t, start_key, end_key)
    ELSE iter_items_forward(t, start_key, end_key)

items(t, reverse) == iter_items(t, None, None, reverse)

keys(t, reverse) ==
    LET its == iter_items(t, None, None, reverse)
    IN  [i \in 1..Len(its) |-> its[i][1]]

item_slice(t, start_key, end_key, reverse) == iter_items(t, start_key, end_key, reverse)

key_slice(t, start_key, end_key, reverse) ==
    LET its == iter_items(t, start_key, end_key, reverse)
    IN  [i \in 1..Len(its) |-> its[i][1]]

(* --------------------------- Bulk Operations -------------------------- *)

pop_min(t) ==
    LET item == min_item(t)
    IN  IF item.err # NoError THEN item
        ELSE LET r == remove(t, item.ret[1])
             IN  IF r.err # NoError THEN r ELSE Result(r.tree, item.ret, NoError)

pop_max(t) ==
    LET item == max_item(t)
    IN  IF item.err # NoError THEN item
        ELSE LET r == remove(t, item.ret[1])
             IN  IF r.err # NoError THEN r ELSE Result(r.tree, item.ret, NoError)

\* the descent of pop_item: left first, else right, down to a leaf
RECURSIVE PopItemLeaf(_)
PopItemLeaf(node) ==
    IF node.left # None THEN PopItemLeaf(node.left)
    ELSE IF node.right # None THEN PopItemLeaf(node.right)
    ELSE node

\* pop_item that reports an empty tree the way min_item does
pop_item_valueerror(t) ==
    IF is_empty(t) THEN Result(t, None, ValueError)
    ELSE LET node == PopItemLeaf(t.root)
             r == remove(t, node.key)
         IN  IF r.err # NoError THEN r
             ELSE Result(r.tree, <<node.key, node.value>>, NoError)

pop_item(t) ==
    IF is_empty(t) THEN Result(t, None, KeyError)
    ELSE LET node == PopItemLeaf(t.root)
             r == remove(t, node.key)
         IN  IF r.err # NoError THEN r
             ELSE Result(r.tree, <<node.key, node.value>>, NoError)

Min(a, b) == IF a <= b THEN a ELSE b

\* [self.pop_min() for _ in range(m)] and its pop_max twin
RECURSIVE PopTimes(_, _, _, _)
PopTimes(t, m, smallest, acc) ==
    IF m <= 0 THEN Result(t, acc, NoError)
    ELSE LET r == IF smallest THEN pop_min(t) ELSE pop_max(t)
         IN  IF r.err # NoError THEN r
             ELSE PopTimes(r.tree, m - 1, smallest, Append(acc, r.ret))

\* [next(items) for _ in range(m)]
NextTimes(t, its, m) ==
    IF m <= 0 THEN Result(t, <<>>, NoError)
    ELSE IF m > Len(its) THEN Result(t, None, "StopIteration")
    ELSE Result(t, SubSeq(its, 1, m), NoError)

\* nsmallest that asks for n items whatever the size of the tree
nsmallest_unclamped(t, n, pop) ==
    IF pop THEN PopTimes(t, n, TRUE, <<>>)
    ELSE NextTimes(t, items(t, FALSE), n)

nsmallest(t, n, pop) ==
    IF pop THEN PopTimes(t, Min(t.count, n), TRUE, <<>>)
    ELSE NextTimes(t, items(t, FALSE), Min(t.count, n))

nlargest(t, n, pop) ==
    IF pop THEN PopTimes(t, Min(t.count, n), FALSE, <<>>)
    ELSE NextTimes(t, items(t, TRUE), Min(t.count, n))

\* _traverse of foreach: the (key, value) calls of func, in the order made
RECURSIVE Traverse(_, _)
Traverse(node, order) ==
    LET call == <<<<node.key, node.value>>>>
        l == IF node.left # None THEN Traverse(node.left, order) ELSE <<>>
        r == IF node.right # None THEN Traverse(node.right, order) ELSE <<>>
    IN  (IF order = -1 THEN call ELSE <<>>) \o l
        \o (IF order = 0 THEN call ELSE <<>>) \o r
        \o (IF order = 1 THEN call ELSE <<>>)

\* foreach(func, order): _traverse(self._root) reads node.key (order = -1) or
\* node.left of the root without testing it, and the root of an empty tree
\* is None
foreach(t, order) ==
    IF t.root = None THEN Result(t, None, AttributeError)
    ELSE Result(t, Traverse(t.root, order), NoError)

\* for key, value in generator: self.insert(key, value)
RECURSIVE InsertAll(_, _)
InsertAll(t, pairs) ==
    IF pairs = <<>> THEN t
    ELSE InsertAll(insert(t, pairs[1][1], pairs[1][2]), Tail(pairs))

copy(t) ==
    LET calls == foreach(t, -1)
    IN  IF calls.err # NoError THEN calls
        ELSE Result(t, InsertAll(NewTree, calls.ret), NoError)

(* ------------------------------ Set Algebra --------------------------- *)

\* frozenset(tree.keys())
KeySet(t) == LET ks == keys(t, FALSE) IN {ks[i] : i \in 1..Len(ks)}

build_sets(trees) == [i \in 1..Len(trees) |-> KeySet(trees[i])]

\* the orders in which iterating a frozenset may produce its elements
Enumerations(S) ==
    {f \in [1..Cardinality(S) -> S] : \A i, j \in 1..Cardinality(S) : i # j => f[i] # f[j]}

\* self.__class__(pairs): a new tree updated with the pairs in the order given
TreeOf(pairs) == InsertAll(NewTree, pairs)

\* _multi_tree_get that lets a later tree override an earlier one
RECURSIVE multi_tree_get_last(_, _)
multi_tree_get_last(trees, key) ==
    IF trees = <<>> THEN Result(None, None, KeyError)
    ELSE LET r == get_value(trees[Len(trees)], key)
         IN  IF r.err = KeyError
             THEN multi_tree_get_last(SubSeq(trees, 1, Len(trees) - 1), key)
             ELSE r

RECURSIVE multi_tree_get(_, _)
multi_tree_get(trees, key) ==
    IF trees = <<>> THEN Result(None, None, KeyError)
    ELSE LET r == get_value(trees[1], key)
         IN  IF r.err = KeyError THEN multi_tree_get(Tail(trees), key) ELSE r

\* ((key, self.get(key)) for key in rkeys), rkeys iterated in the order given
SelfPairs(t, order) ==
    [i \in 1..Len(order) |-> <<order[i], get(t, order[i], None).ret>>]

\* self.__class__((key, _multi_tree_get(all_trees, key)) for key in rkeys)
MultiTree(t, all_trees, order) ==
    LET gets == [i \in 1..Len(order) |-> multi_tree_get(all_trees, order[i])]
    IN  IF \E i \in 1..Len(order) : gets[i].err # NoError
        THEN Result(t, None, KeyError)
        ELSE Result(t, TreeOf([i \in 1..Len(order) |-> <<order[i], gets[i].ret>>]), NoError)

\* the set operations return the set of their possible results, one for
\* each order in which the frozenset rkeys may be iterated
intersection(t, trees) ==
    LET thiskeys == KeySet(t)
        sets == build_sets(trees)
        rkeys == {k \in thiskeys : \A i \in 1..Len(sets) : k \in sets[i]}
    IN  {Result(t, TreeOf(SelfPairs(t, order)), NoError) : order \in Enumerations(rkeys)}

union(t, trees) ==
    LET thiskeys == KeySet(t)
        sets == build_sets(trees)
        rkeys == thiskeys \cup UNION {sets[i] : i \in 1..Len(sets)}
        all_trees == <<t>> \o trees
    IN  {MultiTree(t, all_trees, order) : order \in Enumerations(rkeys)}

difference(t, trees) ==
    LET thiskeys == KeySet(t)
        sets == build_sets(trees)
        rkeys == {k \in thiskeys : \A i \in 1..Len(sets) : k \notin sets[i]}
    IN  {Result(t, TreeOf(SelfPairs(t, order)), NoError) : order \in Enumerations(rkeys)}

\* symmetric_difference that keeps the keys the two trees share
symmetric_difference_union(t, t1) ==
    LET thiskeys == KeySet(t)
        otherkeys == KeySet(t1)
        rkeys == thiskeys \cup otherkeys
        all_trees == <<t, t1>>
    IN  {MultiTree(t, all_trees, order) : order \in Enumerations(rkeys)}

symmetric_difference(t, t1) ==
    LET thiskeys == KeySet(t)
        otherkeys == KeySet(t1)
        rkeys == (thiskeys \ otherkeys) \cup (otherkeys \ thiskeys)
        all_trees == <<t, t1>>
    IN  {MultiTree(t, all_trees, order) : order \in Enumerations(rkeys)}

is_subset(t, t1) == Result(t, KeySet(t) \subseteq KeySet(t1), NoError)

is_superset(t, t1) == Result(t, KeySet(t1) \subseteq KeySet(t), NoError)

is_disjoint(t, t1) == Result(t, KeySet(t) \cap KeySet(t1) = {}, NoError)

\* the subscript of T[...]: a single key, or a slice start:stop
Index(key) == [slice |-> FALSE, key |-> key]

Slice(start, stop) == [slice |-> TRUE, start |-> start, stop |-> stop]

\* __setitem__: T[key] = value, and T[start:stop] = value which is refused
setitem(t, index, value) ==
    IF index.slice THEN Result(t, None, ValueError)
    ELSE Result(insert(t, index.key, value), None, NoError)

(* ------------------------------- the caller --------------------------- *)

\* `tree` is the tree the methods are called on (self), `other` a second
\* tree handed to the set operations, and `last` the most recent call: its
\* name, its arguments, what it returned or raised, and self before it.
\* The caller is sequential: it takes the outcome of a call (Return) before
\* it makes the next one.

Idle == [op |-> "idle"]

Call(op, args, r) ==
    /\ last.op = "idle"
    /\ tree' = r.tree
    /\ last' = [op |-> op, args |-> args, ret |-> r.ret, err |-> r.err, pre |-> tree]
    /\ UNCHANGED other

\* the caller takes the result of a call that has ended; a call that is
\* still at one of its statements ("running", "iterating") goes on instead
Return ==
    /\ last.op \notin {"idle", "running", "iterating"}
    /\ last' = Idle
    /\ UNCHANGED <<tree, other>>

OptKeys == {None} \cup {Some(k) : k \in Probes}

\* T[key] = value
SetItem(key, value) == Call("setitem", <<key, value>>, setitem(tree, Index(key), value))

Remove(key) == Call("remove", <<key>>, remove(tree, key))

Items(reverse) == Call("items", <<reverse>>, Result(tree, items(tree, reverse), NoError))

ItemSlice(s, e, reverse) ==
    Call("item_slice", <<s, e, reverse>>, Result(tree, item_slice(tree, s, e, reverse), NoError))

KeySlice(s, e, reverse) ==
    Call("key_slice", <<s, e, reverse>>, Result(tree, key_slice(tree, s, e, reverse), NoError))

SuccItem(key) == Call("succ_item", <<key>>, succ_item(tree, key))

PrevItem(key) == Call("prev_item", <<key>>, prev_item(tree, key))

FloorItem(key) == Call("floor_item", <<key>>, floor_item(tree, key))

CeilingItem(key) == Call("ceiling_item", <<key>>, ceiling_item(tree, key))

MinItem == Call("min_item", <<>>, min_item(tree))

MaxItem == Call("max_item", <<>>, max_item(tree))

MinKey == Call("min_key", <<>>, min_key(tree))

MaxKey == Call("max_key", <<>>, max_key(tree))

Get(key, default) == Call("get", <<key, default>>, get(tree, key, default))

PopMin == Call("pop_min", <<>>, pop_min(tree))

PopMax == Call("pop_max", <<>>, pop_max(tree))

PopItem == Call("pop_item", <<>>, pop_item(tree))

NSmallest(n, pop) == Call("nsmallest", <<n, pop>>, nsmallest(tree, n, pop))

NLargest(n, pop) == Call("nlargest", <<n, pop>>, nlargest(tree, n, pop))

Copy == Call("copy", <<>>, copy(tree))

Init ==
    /\ tree = NewTree
    /\ other = NewTree
    /\ last = Idle

Next ==
    \/ \E k \in Keys, v \in Values : SetItem(k, v)
    \/ \E k \in Keys : Remove(k)
    \/ \E reverse \in BOOLEAN : Items(reverse)
    \/ \E s \in OptKeys, e \in OptKeys, reverse \in BOOLEAN : ItemSlice(s, e, reverse)
    \/ \E s \in OptKeys, e \in OptKeys, reverse \in BOOLEAN : KeySlice(s, e, reverse)
    \/ \E k \in Probes : SuccItem(k)
    \/ \E k \in Probes : PrevItem(k)
    \/ \E k \in Probes : FloorItem(k)
    \/ \E k \in Probes : CeilingItem(k)
    \/ MinItem
    \/ MaxItem
    \/ MinKey
    \/ MaxKey
    \/ \E k \in Probes : Get(k, "default")
    \/ PopMin
    \/ PopMax
    \/ PopItem
    \/ \E n \in Probes, pop \in BOOLEAN : NSmallest(n, pop)
    \/ \E n \in Probes, pop \in BOOLEAN : NLargest(n, pop)
    \/ Copy
    \/ Return

Spec == Init /\ [][Next]_vars

(* ----------------------- the caller of the set algebra ---------------- *)

\* T[key] = value on the second tree
SetItemOther(key, value) ==
    /\ last.op = "idle"
    /\ other' = insert(other, key, value)
    /\ UNCHANGED <<tree, last>>

\* a third operand: an empty tree or a tree of one item
Thirds == {NewTree} \cup {TreeOf(<<<<k, v>>>>) : k \in SetKeys, v \in Values}

\* the operand lists *trees: none, the second tree, and for union the second
\* and a third tree in both orders
OneOperand == {<<>>, <<other>>}

TwoOperands == {<<other, t3>> : t3 \in Thirds} \cup {<<t3, other>> : t3 \in Thirds}

Intersection(trees) ==
    /\ last.op = "idle"
    /\ \E r \in intersection(tree, trees) : Call("intersection", trees, r)

Union(trees) ==
    /\ last.op = "idle"
    /\ \E r \in union(tree, trees) : Call("union", trees, r)

Difference(trees) ==
    /\ last.op = "idle"
    /\ \E r \in difference(tree, trees) : Call("difference", trees, r)

SymmetricDifference ==
    /\ last.op = "idle"
    /\ \E r \in symmetric_difference(tree, other) : Call("symmetric_difference", <<other>>, r)

IsSubset == Call("is_subset", <<other>>, is_subset(tree, other))

IsSuperset == Call("is_superset", <<other>>, is_superset(tree, other))

IsDisjoint == Call("is_disjoint", <<other>>, is_disjoint(tree, other))

NextSet ==
    \/ \E k \in SetKeys, v \in Values : SetItem(k, v)
    \/ \E k \in SetKeys, v \in Values : SetItemOther(k, v)
    \/ \E trees \in OneOperand : Intersection(trees)
    \/ \E trees \in OneOperand \cup TwoOperands : Union(trees)
    \/ \E trees \in OneOperand : Difference(trees)
    \/ SymmetricDifference
    \/ IsSubset
    \/ IsSuperset
    \/ IsDisjoint
    \/ Return

SpecSet == Init /\ [][NextSet]_vars

(* ------------------------------- properties --------------------------- *)

\* the reached trees are valid binary search trees with an exact count
TreeOK(t) == IsBST(t.root) /\ t.count = Cardinality(ItemsOf(t))

KeysOfSeq(its) == [i \in 1..Len(its) |-> its[i][1]]

StrictlyAscending(ks) == \A i, j \in 1..Len(ks) : i < j => ks[i] < ks[j]

\* the reference answer of a traversal: the items in key order, or reversed
InOrder(S, reverse) == IF reverse THEN Reverse(SortedItems(S)) ELSE SortedItems(S)

\* C1: on a non-empty tree of any valid shape items() yields every stored
\* item exactly once in strictly ascending key order, and
\* items(reverse=True) yields exactly the reverse of that sequence.
C1_ItemsInKeyOrder ==
    (last.op = "items" /\ ItemsOf(last.pre) # {}) =>
        /\ TreeOK(last.pre)
        /\ last.err = NoError
        /\ last.ret = InOrder(ItemsOf(last.pre), last.args[1])
        /\ Len(last.ret) = Cardinality(ItemsOf(last.pre))
        /\ StrictlyAscending(KeysOfSeq(IF last.args[1] THEN Reverse(last.ret) ELSE last.ret))

\* a reverse traversal of a tree whose root has both children and a
\* grandchild, so that the stack held two ancestors at once
C1_Witness ==
    /\ last.op = "items"
    /\ last.args[1]
    /\ last.pre.root # None
    /\ last.pre.root.left # None
    /\ last.pre.root.right # None
    /\ NodeHeight(last.pre.root) >= 3
    /\ Len(last.ret) >= 4

\* the stored keys k with s <= k < e, None standing for no bound on that side
RangeItems(t, s, e) ==
    {it \in ItemsOf(t) : (s = None \/ s[1] <= it[1]) /\ (e = None \/ it[1] < e[1])}

\* C2: key_slice / item_slice(s, e, reverse) yield exactly the stored keys k
\* with s <= k < e, ascending or (reverse) descending; s = None starts at the
\* minimum key and e = None runs through the maximum key.
C2_SliceHalfOpen ==
    (last.op \in {"key_slice", "item_slice"}) =>
        LET expected == InOrder(RangeItems(last.pre, last.args[1], last.args[2]), last.args[3])
        IN  /\ last.err = NoError
            /\ tree = last.pre
            /\ last.ret = IF last.op = "key_slice" THEN KeysOfSeq(expected) ELSE expected

\* a descending key slice whose end bound is a stored key (left out) and
\* whose start bound is a stored key (kept)
C2_Witness ==
    /\ last.op = "key_slice"
    /\ last.args[3]
    /\ last.args[1] # None
    /\ last.args[2] # None
    /\ last.args[1][1] \in KeysOf(last.pre)
    /\ last.args[2][1] \in KeysOf(last.pre)
    /\ Len(last.ret) >= 2
    /\ \E k \in KeysOf(last.pre) : k > last.args[2][1]

\* C3: succ_item(k) returns the item of the smallest stored key above k when
\* k is stored and is not the maximum, and raises KeyError otherwise;
\* prev_item(k) mirrors it with the greatest stored key below k.
C3_SuccPrev ==
    (last.op \in {"succ_item", "prev_item"}) =>
        LET k == last.args[1]
            S == ItemsOf(last.pre)
            beyond == IF last.op = "succ_item"
                      THEN {it \in S : it[1] > k}
                      ELSE {it \in S : it[1] < k}
            nearest == IF last.op = "succ_item"
                       THEN SortedItems(beyond)[1]
                       ELSE Reverse(SortedItems(beyond))[1]
        IN  /\ tree = last.pre
            /\ IF k \in KeysOf(last.pre) /\ beyond # {}
               THEN last.err = NoError /\ last.ret = nearest
               ELSE last.err = KeyError

\* the successor is an ancestor although the node of k has a subtree on its
\* other side, in a tree of four nodes
C3_Witness ==
    /\ last.op = "succ_item"
    /\ last.err = NoError
    /\ Cardinality(ItemsOf(last.pre)) >= 4
    /\ last.pre.root # None
    /\ last.pre.root.key = last.ret[1]
    /\ last.pre.root.left # None
    /\ last.pre.root.left.key # last.args[1]

\* C4: floor_item(k) returns the item of the greatest stored key <= k and
\* raises KeyError exactly when there is none; ceiling_item(k) the item of
\* the smallest stored key >= k, KeyError exactly when there is none.
C4_FloorCeiling ==
    (last.op \in {"floor_item", "ceiling_item"}) =>
        LET k == last.args[1]
            S == ItemsOf(last.pre)
            side == IF last.op = "floor_item"
                    THEN {it \in S : it[1] <= k}
                    ELSE {it \in S : it[1] >= k}
            nearest == IF last.op = "floor_item"
                       THEN Reverse(SortedItems(side))[1]
                       ELSE SortedItems(side)[1]
        IN  /\ tree = last.pre
            /\ IF side # {}
               THEN last.err = NoError /\ last.ret = nearest
               ELSE last.err = KeyError

\* floor of an absent key whose answer is found after two turns to the right
C4_Witness ==
    /\ last.op = "floor_item"
    /\ last.err = NoError
    /\ last.args[1] \notin KeysOf(last.pre)
    /\ last.pre.root # None
    /\ last.pre.root.right # None
    /\ last.pre.root.right.key < last.args[1]
    /\ last.ret[1] # last.pre.root.key
    /\ \E it \in ItemsOf(last.pre) : it[1] > last.args[1]

\* the keys of all the operands handed to a set operation
OperandKeys == UNION {KeysOf(last.args[i]) : i \in 1..Len(last.args)}

SetOps == {"intersection", "union", "difference", "symmetric_difference"}

SetPredicates == {"is_subset", "is_superset", "is_disjoint"}

\* C5: the key set of A.union(B) is keys(A) \cup keys(B), of A.intersection(B)
\* keys(A) \cap keys(B), of A.difference(B) keys(A) \ keys(B), of
\* A.symmetric_difference(B) the keys in exactly one of A and B; these
\* operations and is_subset / is_superset / is_disjoint leave A and B as
\* they were.
C5_SetAlgebraKeys ==
    (last.op \in SetOps \cup SetPredicates) =>
        LET A == KeysOf(last.pre)
            expected ==
                CASE last.op = "union" -> A \cup OperandKeys
                  [] last.op = "intersection" ->
                        {k \in A : \A i \in 1..Len(last.args) : k \in KeysOf(last.args[i])}
                  [] last.op = "difference" -> A \ OperandKeys
                  [] last.op = "symmetric_difference" ->
                        (A \ OperandKeys) \cup (OperandKeys \ A)
                  [] OTHER -> {}
        IN  /\ last.err = NoError
            /\ tree = last.pre
            /\ other \in {last.args[i] : i \in 1..Len(last.args)} \/ last.args = <<>>
            /\ last.op \in SetOps =>
                   /\ KeysOf(last.ret) = expected
                   /\ TreeOK(last.ret)
            /\ last.op = "intersection" =>
                   /\ KeysOf(last.ret) \subseteq A
                   /\ \A i \in 1..Len(last.args) : KeysOf(last.ret) \subseteq KeysOf(last.args[i])
            /\ last.op = "symmetric_difference" => KeysOf(last.ret) \cap (A \cap OperandKeys) = {}

\* a symmetric difference of two trees that share a key and differ in another
C5_Witness ==
    /\ last.op = "symmetric_difference"
    /\ KeysOf(last.pre) \cap KeysOf(other) # {}
    /\ KeysOf(last.ret) # {}
    /\ KeysOf(other) # {}

\* the value a key has in the first of the trees that holds it
FirstOwnerValue(trees, k) ==
    LET i == CHOOSE i \in 1..Len(trees) :
                 /\ k \in KeysOf(trees[i])
                 /\ \A j \in 1..(i - 1) : k \notin KeysOf(trees[j])
    IN  ValueAt(trees[i], k)

\* C6: in the result of union and of symmetric_difference a key carries the
\* value of the first tree of [self, t1, t2, ...] that holds it; in the
\* result of intersection and of difference the value self holds.
C6_SetAlgebraValues ==
    (last.op \in SetOps /\ last.err = NoError) =>
        \A k \in KeysOf(last.ret) :
            ValueAt(last.ret, k) =
                IF last.op \in {"union", "symmetric_difference"}
                THEN FirstOwnerValue(<<last.pre>> \o last.args, k)
                ELSE ValueAt(last.pre, k)

\* a union of three trees where self lacks a key that t1 and t2 hold with
\* different values, and holds a key that t1 or t2 holds with another value
C6_Witness ==
    /\ last.op = "union"
    /\ Len(last.args) = 2
    /\ \E k \in KeysOf(last.args[1]) \cap KeysOf(last.args[2]) :
           /\ k \notin KeysOf(last.pre)
           /\ ValueAt(last.args[1], k) # ValueAt(last.args[2], k)
    /\ \E k \in KeysOf(last.pre) \cap OperandKeys :
           \E i \in 1..2 : /\ k \in KeysOf(last.args[i])
                           /\ ValueAt(last.args[i], k) # ValueAt(last.pre, k)

\* C7: for every tree, the empty tree included, copy() returns normally a
\* new tree with the same items, and leaves the tree it copies as it was.
C7_CopyRoundTrip ==
    (last.op = "copy") =>
        /\ last.err = NoError
        /\ ItemsOf(last.ret) = ItemsOf(last.pre)
        /\ tree = last.pre

\* what copy() does keep: the round trip on every tree that has a node
C7_CopyOfNonEmpty ==
    (last.op = "copy" /\ last.pre.root # None) =>
        /\ last.err = NoError
        /\ ItemsOf(last.ret) = ItemsOf(last.pre)
        /\ TreeOK(last.ret)
        /\ tree = last.pre

SeqToSet(seq) == {seq[i] : i \in 1..Len(seq)}

\* C8: nsmallest(n, pop) returns the min(n, len) items of smallest key in
\* ascending order and nlargest(n, pop) those of largest key in descending
\* order, without error when n exceeds len and the same list for either
\* value of pop; pop=False leaves the tree as it was, pop=True leaves it
\* with its former items minus the returned ones.
C8_NSmallestNLargest ==
    (last.op \in {"nsmallest", "nlargest"}) =>
        LET n == last.args[1]
            pop == last.args[2]
            S == ItemsOf(last.pre)
            m == Min(n, Cardinality(S))
            expected == SubSeq(InOrder(S, last.op = "nlargest"), 1, m)
        IN  /\ last.err = NoError
            /\ last.ret = expected
            /\ IF pop
               THEN /\ ItemsOf(tree) = S \ SeqToSet(expected)
                    /\ TreeOK(tree)
                    /\ ItemsOf(tree) # {} =>
                          /\ min_key(tree).ret = SortedItems(ItemsOf(tree))[1][1]
                          /\ max_key(tree).ret = Reverse(SortedItems(ItemsOf(tree)))[1][1]
               ELSE tree = last.pre

\* two items popped off the small end of a tree that keeps at least one,
\* the minimum being an inner node of the tree before the call
C8_Witness ==
    /\ last.op = "nsmallest"
    /\ last.args[2]
    /\ Len(last.ret) = 2
    /\ ItemsOf(tree) # {}
    /\ last.pre.root # None
    /\ last.pre.root.left # None
    /\ last.pre.root.left.right # None
    /\ last.pre.root.left.left = None

ExtremalOps == {"min_item", "max_item", "min_key", "max_key", "pop_min", "pop_max"}

\* C9: on an empty tree min_item, max_item, min_key, max_key, pop_min and
\* pop_max raise ValueError (EmptyTree) and leave the tree empty, and
\* get(k, default) returns default without raising and without inserting k.
C9_EmptyTreeBoundary ==
    /\ (last.op \in ExtremalOps /\ ItemsOf(last.pre) = {}) =>
           /\ last.err = ValueError
           /\ tree = last.pre
           /\ ItemsOf(tree) = {}
           /\ tree.count = 0
    /\ (last.op = "get" /\ ItemsOf(last.pre) = {}) =>
           /\ last.err = NoError
           /\ last.ret = last.args[2]
           /\ tree = last.pre
           /\ ItemsOf(tree) = {}

\* pop_min called on a tree without nodes raised ValueError and left it empty
C9_Witness ==
    /\ last.op = "pop_min"
    /\ last.err = ValueError
    /\ tree = NewTree

\* C10 as stated: pop_item() on an empty tree raises the EmptyTree kind
\* (ValueError, what min_item raises), not the KeyNotFound kind, and leaves
\* the tree empty.
C10_PopItemEmptyTreeKind ==
    (last.op = "pop_item" /\ ItemsOf(last.pre) = {}) =>
        /\ last.err = ValueError
        /\ last.err = min_item(last.pre).err
        /\ last.err # KeyError
        /\ tree = last.pre

\* C10 amended: pop_item() on an empty tree raises KeyError, the kind a
\* lookup or a removal of an absent key raises and not the kind min_item
\* raises on an empty tree, and leaves the tree empty.
C10_PopItemKeyError ==
    (last.op = "pop_item" /\ ItemsOf(last.pre) = {}) =>
        /\ last.err = KeyError
        /\ \A k \in Keys : last.err = remove(last.pre, k).err
        /\ last.err # min_item(last.pre).err
        /\ tree = last.pre
        /\ ItemsOf(tree) = {}

\* pop_item raised on an empty tree
C10_Witness ==
    /\ last.op = "pop_item"
    /\ last.pre = NewTree
    /\ last.err # NoError

(* ---------------------------- mutating methods ------------------------ *)

discard(t, key) ==
    LET r == remove(t, key)
    IN  IF r.err = KeyError THEN Result(r.tree, None, NoError) ELSE r

\* for key in <the frozenset, iterated in the order given>: self.remove(key)
RECURSIVE RemoveAll(_, _)
RemoveAll(t, order) ==
    IF order = <<>> THEN Result(t, None, NoError)
    ELSE LET r == remove(t, order[1])
         IN  IF r.err # NoError THEN r ELSE RemoveAll(r.tree, Tail(order))

\* remove_items(keys): the possible outcomes, one for each order in which
\* frozenset(keys) may be iterated; keys is what the source yields
remove_items(t, keyseq) ==
    {RemoveAll(t, order) : order \in Enumerations({keyseq[i] : i \in 1..Len(keyseq)})}

\* __delitem__: del T[key] and del T[start:stop]
delitem(t, index) ==
    IF index.slice THEN remove_items(t, key_slice(t, index.start, index.stop, FALSE))
    ELSE {remove(t, index.key)}

\* set_default that stores the default over a value already held
set_default_overwrite(t, key, default) ==
    Result(insert(t, key, default), default, NoError)

set_default(t, key, default) ==
    LET r == get_value(t, key)
    IN  IF r.err = KeyError THEN Result(insert(t, key, default), default, NoError)
        ELSE r

\* pop whose test of the number of arguments comes after the removal
pop_late_check(t, key, args) ==
    LET value == get_value(t, key)
        r == IF value.err = KeyError THEN value ELSE remove(t, key)
    IN  IF Len(args) > 1 THEN Result(r.tree, None, TypeError)
        ELSE IF r.err = KeyError
             THEN IF Len(args) = 0 THEN Result(r.tree, None, KeyError)
                  ELSE Result(r.tree, args[1], NoError)
             ELSE Result(r.tree, value.ret, NoError)

\* pop(key, *args): args holds the defaults given
pop(t, key, args) ==
    IF Len(args) > 1 THEN Result(t, None, TypeError)
    ELSE LET value == get_value(t, key)
             r == IF value.err = KeyError THEN value ELSE remove(t, key)
         IN  IF r.err = KeyError
             THEN IF Len(args) = 0 THEN Result(r.tree, None, KeyError)
                  ELSE Result(r.tree, args[1], NoError)
             ELSE Result(r.tree, value.ret, NoError)

\* an element of a source of update: a (key, value) pair, or something that
\* does not unpack into two names
Pair(key, value) == [pair |-> TRUE, key |-> key, value |-> value]

BadElement == [pair |-> FALSE]

\* a source of update: a mapping or an iterable with its elements in the
\* order read, or an object that has no items() and is not iterable
Iterable(elems) == [iterable |-> TRUE, elems |-> elems]

NotIterable == [iterable |-> FALSE]

\* for key, value in generator: self.insert(key, value)
RECURSIVE UpdateFrom(_, _)
UpdateFrom(t, elems) ==
    IF elems = <<>> THEN Result(t, None, NoError)
    ELSE IF ~elems[1].pair THEN Result(t, None, TypeError)
    ELSE UpdateFrom(insert(t, elems[1].key, elems[1].value), Tail(elems))

\* update(*args)
RECURSIVE update(_, _)
update(t, args) ==
    IF args = <<>> THEN Result(t, None, NoError)
    ELSE IF ~args[1].iterable THEN Result(t, None, TypeError)
    ELSE LET r == UpdateFrom(t, args[1].elems)
         IN  IF r.err # NoError THEN r ELSE update(r.tree, Tail(args))

(* ----------------------- the caller of the mutators ------------------- *)

SetSlice(s, e, value) == Call("setslice", <<s, e, value>>, setitem(tree, Slice(s, e), value))

DelItem(key) ==
    /\ last.op = "idle"
    /\ \E r \in delitem(tree, Index(key)) : Call("delitem", <<key>>, r)

DelSlice(s, e) ==
    /\ last.op = "idle"
    /\ \E r \in delitem(tree, Slice(s, e)) : Call("delslice", <<s, e>>, r)

RemoveItems(keyseq) ==
    /\ last.op = "idle"
    /\ \E r \in remove_items(tree, keyseq) : Call("remove_items", <<keyseq>>, r)

Discard(key) == Call("discard", <<key>>, discard(tree, key))

Pop(key, args) == Call("pop", <<key, args>>, pop(tree, key, args))

SetDefault(key, default) == Call("set_default", <<key, default>>, set_default(tree, key, default))

Update(args) == Call("update", <<args>>, update(tree, args))

\* the elements, sources and argument lists handed to update: one source of
\* up to two elements, or two sources of up to one element each
Elements == {Pair(k, "x") : k \in Keys} \cup {BadElement}

ShortSources == {NotIterable, Iterable(<<>>)} \cup {Iterable(<<e>>) : e \in Elements}

LongSources == {Iterable(<<e1, e2>>) : e1 \in Elements, e2 \in Elements}

UpdateArgs ==
    {<<>>} \cup {<<s>> : s \in ShortSources \cup LongSources}
           \cup {<<s1, s2>> : s1 \in ShortSources, s2 \in ShortSources}

\* the key sequences handed to remove_items: up to two keys, stored or not
KeySeqs ==
    {<<>>} \cup {<<a>> : a \in Probes} \cup {<<p[1], p[2]>> : p \in {q \in Probes \X Probes : q[1] <= q[2]}}

PopArgs == {<<>>, <<"default">>, <<"default", "extra">>}

NextMut ==
    \/ \E k \in Keys, v \in Values : SetItem(k, v)
    \/ \E s \in OptKeys, e \in {None, Some(NumKeys)} : SetSlice(s, e, "x")
    \/ \E k \in Probes : DelItem(k)
    \/ \E s \in OptKeys, e \in OptKeys : DelSlice(s, e)
    \/ \E k \in Probes : Remove(k)
    \/ \E keyseq \in KeySeqs : RemoveItems(keyseq)
    \/ \E k \in Probes : Discard(k)
    \/ \E k \in Probes, args \in PopArgs : Pop(k, args)
    \/ \E k \in Keys, v \in Values : SetDefault(k, v)
    \/ \E args \in UpdateArgs : Update(args)
    \/ PopMin
    \/ PopMax
    \/ PopItem
    \/ \E n \in Probes : NSmallest(n, TRUE)
    \/ \E n \in Probes : NLargest(n, TRUE)
    \/ Return

SpecMut == Init /\ [][NextMut]_vars

(* ------------------------- atomicity on failure ----------------------- *)

\* the operations on a single key or on an extremum
AtomicOps ==
    {"setitem", "setslice", "delitem", "remove", "discard", "pop", "set_default",
     "pop_min", "pop_max", "pop_item", "nsmallest", "nlargest"}

\* the tree holds the items and has the length it had when the call began
SameAsBefore == ItemsOf(tree) = ItemsOf(last.pre) /\ tree.count = last.pre.count

\* the elements update reads from its sources, one after the other; reading
\* a source that is not iterable fails like reading a malformed element
RECURSIVE ElementsRead(_)
ElementsRead(args) ==
    IF args = <<>> THEN <<>>
    ELSE (IF args[1].iterable THEN args[1].elems ELSE <<BadElement>>)
         \o ElementsRead(Tail(args))

\* the items of a map after storing the pairs that precede the first
\* malformed element
RECURSIVE StoredUntilFailure(_, _)
StoredUntilFailure(its, elems) ==
    IF elems = <<>> \/ ~elems[1].pair THEN its
    ELSE StoredUntilFailure({it \in its : it[1] # elems[1].key}
                                \cup {<<elems[1].key, elems[1].value>>},
                            Tail(elems))

\* C11 as stated: whenever one of T[k] = v, T[s:e] = v, del T[k], remove,
\* discard, pop, set_default, update, pop_min, pop_max, pop_item, nsmallest
\* or nlargest with pop raises, the items and the length of the tree are
\* those it had before the call.
C11_AtomicWithUpdate ==
    (last.op \in AtomicOps \cup {"update"} /\ last.err # NoError) => SameAsBefore

\* C11, amended: every operation on a single key or on an extremum leaves
\* the items and the length of the tree as they were whenever it raises;
\* update is not atomic: when it raises, the tree holds its former items
\* overridden by the pairs read before the malformed element or source.
C11_AtomicExceptUpdate ==
    /\ (last.op \in AtomicOps /\ last.err # NoError) => SameAsBefore
    /\ (last.op = "update" /\ last.err # NoError) =>
           /\ ItemsOf(tree) = StoredUntilFailure(ItemsOf(last.pre), ElementsRead(last.args[1]))
           /\ tree.count = Cardinality(ItemsOf(tree))

\* pop given two defaults for a stored key has raised
C11_Witness ==
    /\ last.op = "pop"
    /\ last.err = TypeError
    /\ last.args[1] \in KeysOf(last.pre)

(* ------------- remove_items and del T[s:e], statement by statement ------ *)

\* the sources of keys handed to remove_items: a list, or the generator that
\* key_slice returns, which runs over the nodes of the tree only when resumed
ListSource(keyseq) == [lazy |-> FALSE, rest |-> keyseq]

SliceSource(t, start_key, end_key) ==
    [lazy |-> TRUE, gen |-> [IterStart(t) EXCEPT !.done = is_empty(t)],
     start |-> start_key, stop |-> end_key]

\* the passes of the loop of _iter_items from one resumption of the
\* generator to its next yield, or to its return
RECURSIVE IterNext(_, _, _, _, _)
IterNext(t, st, fwd, start_key, end_key) ==
    LET n == IterStep(t, st, fwd, start_key, end_key)
    IN  IF n.done \/ Len(n.out) > Len(st.out) THEN n
        ELSE IterNext(t, n, fwd, start_key, end_key)

\* next(source): got is <<key>>, or <<>> when the source is exhausted
SourceNext(src, t) ==
    IF ~src.lazy
    THEN IF src.rest = <<>> THEN [src |-> src, got |-> <<>>]
         ELSE [src |-> [src EXCEPT !.rest = Tail(src.rest)], got |-> <<src.rest[1]>>]
    ELSE IF src.gen.done THEN [src |-> src, got |-> <<>>]
    ELSE LET n == IterNext(t, src.gen, TRUE, src.start, src.stop)
         IN  [src |-> [src EXCEPT !.gen = n],
              got |-> IF Len(n.out) > Len(src.gen.out)
                      THEN <<n.out[Len(n.out)][1]>> ELSE <<>>]

\* a call of remove_items that has just been entered
Running(call, args, src, t) ==
    [op |-> "running", call |-> call, args |-> args, pre |-> t, src |-> src,
     keys |-> {}, pending |-> {}, frozen |-> FALSE, reads |-> 0, removed |-> 0]

\* a loop that takes each key as soon as the source has yielded it
RemoveEnabled_lazy(c) == c.pending # {}

\* the body of "for key in frozenset(keys)" runs once frozenset(keys) has
\* returned, that is once the source has been read to its end
RemoveEnabled(c) == c.frozen

BeginRemoveItems(keyseq) ==
    /\ last.op = "idle"
    /\ last' = Running("remove_items", <<keyseq>>, ListSource(keyseq), tree)
    /\ UNCHANGED <<tree, other>>

\* del T[s:e]: self.remove_items(self.keyslice(key.start, key.stop))
BeginDelSlice(s, e) ==
    /\ last.op = "idle"
    /\ last' = Running("delslice", <<s, e>>, SliceSource(tree, s, e), tree)
    /\ UNCHANGED <<tree, other>>

\* frozenset(keys) takes one more key from the source
ReadKey ==
    /\ last.op = "running"
    /\ ~last.frozen
    /\ LET n == SourceNext(last.src, last.pre)
       IN  /\ n.got # <<>>
           /\ last' = [last EXCEPT !.src = n.src,
                                   !.keys = last.keys \cup {n.got[1]},
                                   !.pending = last.pending \cup {n.got[1]},
                                   !.reads = last.reads + 1]
    /\ UNCHANGED <<tree, other>>

\* frozenset(keys) finds the source exhausted and returns
Freeze ==
    /\ last.op = "running"
    /\ ~last.frozen
    /\ LET n == SourceNext(last.src, last.pre)
       IN  /\ n.got = <<>>
           /\ last' = [last EXCEPT !.src = n.src, !.frozen = TRUE,
                                   !.reads = last.reads + 1]
    /\ UNCHANGED <<tree, other>>

\* one pass of the for loop: self.remove(key), for any key not yet taken
RemoveKey ==
    /\ last.op = "running"
    /\ RemoveEnabled(last)
    /\ \E key \in last.pending :
           LET r == remove(tree, key)
           IN  /\ tree' = r.tree
               /\ last' = IF r.err # NoError
                          THEN [op |-> last.call, args |-> last.args, ret |-> None,
                                err |-> r.err, pre |-> last.pre]
                          ELSE [last EXCEPT !.pending = last.pending \ {key},
                                            !.removed = last.removed + 1]
    /\ UNCHANGED other

\* the for loop has taken every key: the call returns None
Finish ==
    /\ last.op = "running"
    /\ last.frozen
    /\ last.pending = {}
    /\ last' = [op |-> last.call, args |-> last.args, ret |-> None,
                err |-> NoError, pre |-> last.pre]
    /\ UNCHANGED <<tree, other>>

NextBulk ==
    \/ \E k \in Keys : SetItem(k, "x")
    \/ \E keyseq \in KeySeqs : BeginRemoveItems(keyseq)
    \/ \E s \in OptKeys, e \in OptKeys : BeginDelSlice(s, e)
    \/ ReadKey
    \/ Freeze
    \/ RemoveKey
    \/ Finish
    \/ Return

SpecBulk == Init /\ [][NextBulk]_vars

\* a step in which the running call reads its source
ReadsSource ==
    /\ last.op = "running"
    /\ last'.op = "running"
    /\ last'.reads > last.reads

\* what del T[s:e] leaves: nothing raised, the keys of the range gone, every
\* other item as it was
DelSliceDone ==
    (last.op = "delslice") =>
        /\ last.err = NoError
        /\ ItemsOf(tree) = ItemsOf(last.pre) \ RangeItems(last.pre, last.args[1], last.args[2])
        /\ TreeOK(tree)

\* C12: remove_items reads its whole source of keys into a fixed collection
\* before its first remove, so that no step reads the source once a key has
\* been removed; and so del T[s:e], whose source is the lazy key slice of T
\* itself, raises nothing, removes exactly the keys k with s <= k < e held
\* when the call began and leaves every other item as it was.
C12_SnapshotBeforeRemoval ==
    /\ [][ReadsSource => last.removed = 0]_vars
    /\ []DelSliceDone

\* del T[s:e] has removed two keys or more and has left one or more
C12_Witness ==
    /\ last.op = "delslice"
    /\ last.err = NoError
    /\ last.pre.count - tree.count >= 2
    /\ tree.count >= 1

(* ---------------------- the reference sorted map ----------------------- *)

\* the reference map is a set of <<key, value>> items with one item a key;
\* the map a tree stands for is ItemsOf(tree)
RefKeys(M) == {it[1] : it \in M}

RefGet(M, k) == (CHOOSE it \in M : it[1] = k)[2]

RefPut(M, k, v) == {it \in M : it[1] # k} \cup {<<k, v>>}

RefDel(M, k) == {it \in M : it[1] # k}

RefMin(M) == CHOOSE it \in M : \A o \in M : it[1] <= o[1]

RefMax(M) == CHOOSE it \in M : \A o \in M : it[1] >= o[1]

\* the last call started on map M, ended on map N, returned ret and raised err
Outcome(N, ret, err) ==
    /\ ItemsOf(tree) = N
    /\ last.ret = ret
    /\ last.err = err

\* the last call did to the tree and returned what the reference map does
\* and returns for the same call
AsReference ==
    LET M == ItemsOf(last.pre)
        a == last.args
    IN  /\ (last.op = "setitem") => Outcome(RefPut(M, a[1], a[2]), None, NoError)
        /\ (last.op = "remove") =>
               IF a[1] \in RefKeys(M) THEN Outcome(RefDel(M, a[1]), None, NoError)
               ELSE Outcome(M, None, KeyError)
        /\ (last.op = "discard") => Outcome(RefDel(M, a[1]), None, NoError)
        /\ (last.op = "pop" /\ Len(a[2]) <= 1) =>
               IF a[1] \in RefKeys(M) THEN Outcome(RefDel(M, a[1]), RefGet(M, a[1]), NoError)
               ELSE IF a[2] = <<>> THEN Outcome(M, None, KeyError)
               ELSE Outcome(M, a[2][1], NoError)
        /\ (last.op = "set_default") =>
               IF a[1] \in RefKeys(M) THEN Outcome(M, RefGet(M, a[1]), NoError)
               ELSE Outcome(RefPut(M, a[1], a[2]), a[2], NoError)
        /\ (last.op = "update" /\ \A e \in SeqToSet(ElementsRead(a[1])) : e.pair) =>
               Outcome(StoredUntilFailure(M, ElementsRead(a[1])), None, NoError)
        /\ (last.op = "pop_min") =>
               IF M = {} THEN Outcome(M, None, ValueError)
               ELSE Outcome(M \ {RefMin(M)}, RefMin(M), NoError)
        /\ (last.op = "pop_max") =>
               IF M = {} THEN Outcome(M, None, ValueError)
               ELSE Outcome(M \ {RefMax(M)}, RefMax(M), NoError)
        /\ (last.op = "pop_item") =>
               IF M = {} THEN Outcome(M, None, KeyError)
               ELSE /\ last.ret \in M
                    /\ Outcome(M \ {last.ret}, last.ret, NoError)
        /\ (last.op = "remove_items") =>
               IF SeqToSet(a[1]) \subseteq RefKeys(M)
               THEN Outcome({it \in M : it[1] \notin SeqToSet(a[1])}, None, NoError)
               ELSE /\ last.err = KeyError
                    /\ ItemsOf(tree) \subseteq M
                    /\ \A it \in M \ ItemsOf(tree) : it[1] \in SeqToSet(a[1])

\* C13: from the empty tree, after any sequence of T[k] = v, remove,
\* discard, pop, set_default, update, pop_min, pop_max, pop_item and
\* remove_items, the tree keeps the BST ordering with one node a key, len
\* is the number of reachable nodes and the size of the reference map,
\* items() is the reference map in ascending key order, and every call has
\* returned what the reference map returns: pop_min / pop_max the current
\* minimum / maximum, pop_item a stored item which it removes, pop the
\* removed value or the default, set_default the value already held without
\* overwriting it, discard of an absent key nothing and without raising.
C13_RefinesSortedMap ==
    /\ IsBST(tree.root)
    /\ Cardinality(KeysOf(tree)) = Cardinality(ItemsOf(tree))
    /\ tree.count = Cardinality(ItemsOf(tree))
    /\ items(tree, FALSE) = SortedItems(ItemsOf(tree))
    /\ (last.op # "idle") => AsReference

\* set_default has been given a stored key and a default other than the
\* value held
C13_Witness ==
    /\ last.op = "set_default"
    /\ last.args[1] \in KeysOf(last.pre)
    /\ last.ret # last.args[2]
    /\ last.pre.count >= 3

(* ------------------- the range iterator, pass by pass ------------------ *)

\* the node of this pass is tested against the range (the else branch of
\* the loop) rather than stacked
IsCandidate(st, fwd) == ~(left(st.node, fwd) # None /\ st.go_left)

\* _iter_items is entered: an empty tree returns at once, otherwise the
\* loop starts at the root; cand lists the keys tested against the range
\* so far and passes counts the passes of the loop
BeginIter(s, e, reverse) ==
    /\ last.op = "idle"
    /\ last' = [op |-> "iterating", args |-> <<s, e, reverse>>, pre |-> tree,
                st |-> [IterStart(tree) EXCEPT !.done = is_empty(tree)],
                cand |-> <<>>, passes |-> 0]
    /\ UNCHANGED <<tree, other>>

\* one pass of the while loop
IterPass ==
    /\ last.op = "iterating"
    /\ ~last.st.done
    /\ last' = [last EXCEPT
                   !.st = IterStep(last.pre, last.st, ~last.args[3], last.args[1], last.args[2]),
                   !.cand = IF IsCandidate(last.st, ~last.args[3])
                            THEN Append(last.cand, last.st.node.key) ELSE last.cand,
                   !.passes = last.passes + 1]
    /\ UNCHANGED <<tree, other>>

\* the generator has returned: the caller holds what it yielded
IterReturn ==
    /\ last.op = "iterating"
    /\ last.st.done
    /\ last' = [op |-> "iter_items", args |-> last.args, ret |-> last.st.out,
                err |-> NoError, pre |-> last.pre]
    /\ UNCHANGED <<tree, other>>

NextIter ==
    \/ \E k \in Keys : SetItem(k, "x")
    \/ \E s \in OptKeys, e \in OptKeys, reverse \in BOOLEAN : BeginIter(s, e, reverse)
    \/ IterPass
    \/ IterReturn
    \/ Return

\* the consumer of the generator keeps resuming it
SpecIter == Init /\ [][NextIter]_vars /\ WF_vars(IterPass)

Iterating == last.op = "iterating"

LoopExited == last.op = "iterating" /\ last.st.done

\* a is a proper ancestor of the node n
IsProperAncestor(a, n) == a.key # n.key /\ n.key \in {it[1] : it \in NodeItems(a)}

NoDuplicates(seq) == \A i, j \in 1..Len(seq) : seq[i] = seq[j] => i = j

\* what holds at every pass of a running iteration
StackInvariant ==
    Iterating =>
        LET st == last.st
            root == last.pre.root
        IN  /\ \A i \in 1..Len(st.stack) :
                   /\ IsProperAncestor(st.stack[i], st.node)
                   /\ st.stack[i].key \notin SeqToSet(last.cand)
            /\ Len(st.stack) <= NodeHeight(root)
            /\ (root # None) => Len(st.stack) < NodeHeight(root)
            /\ NoDuplicates(last.cand)
            /\ SeqToSet(last.cand) \subseteq KeysOf(last.pre)
            /\ last.passes <= 2 * last.pre.count
            /\ st.done => SeqToSet(last.cand) = KeysOf(last.pre)

\* a pass ends the loop exactly when its node is tested against the range,
\* has no "right" child and the stack is empty
ExitRule ==
    (Iterating /\ last'.op = "iterating" /\ last'.passes > last.passes) =>
        (last'.st.done <=>
            /\ IsCandidate(last.st, ~last.args[3])
            /\ right(last.st.node, ~last.args[3]) = None
            /\ last.st.stack = <<>>)

\* C14: on every BST shape, in both directions and for every range, the
\* loop of the range iterator terminates, and a pass ends it exactly when
\* the stack is empty and the current node, just tested against the range,
\* has no "right" child; every node is the node tested against the range
\* exactly once; at every pass the stack holds only proper ancestors of
\* the current node that have not been tested yet, so that its length
\* never exceeds the height of the tree.
C14_IteratorTerminates ==
    /\ []StackInvariant
    /\ [][ExitRule]_vars
    /\ (Iterating ~> LoopExited)

\* a running iteration with two ancestors stacked after a first node has
\* been tested
C14_Witness ==
    /\ Iterating
    /\ Len(last.st.stack) >= 2
    /\ Len(last.cand) >= 1

====
